---- MODULE Spec2Model ----
(***************************************************************************)
(* State-machine model of packages/stylify/src/Compiler/CssRecord.ts:      *)
(* the CssRecord class (configure / add... / generateCss) and the legacy   *)
(* default-export CssRecord (addSelector / compile / serialize / hydrate). *)
(* JavaScript strings are TLA+ strings; every regular-expression replace   *)
(* is computed character by character.                                     *)
(***************************************************************************)
EXTENDS Integers, Sequences, FiniteSets, TLC

VARIABLES
    object,             \* which class the behaviour drives: "CssRecord" or "default"
    hooks,              \* listeners registered for 'cssRecord:addProperty'
    changed, cache, shouldBeGenerated, selector, mangledSelector, screenId,
    scope, customSelectors, components, properties, pseudoClasses,
    op, args, ret, recomputed,   \* the last call: method, argument, result, branch
    cacheConfig,        \* the config of the generateCss call that computed cache
    R, T, data, D, thrown,       \* default-export records, snapshot, exception
    watchFiles,         \* Bundler.options.watchFiles
    bundlesBuildCache,  \* Bundler.bundlesBuildCache: outputFile -> entry
    watchers,           \* the listeners fs.watchFile holds: <<filePath, bundleOptions>>
    fileSystem,         \* the source files: path -> content
    written,            \* the files the Bundler wrote: path -> what was written
    compilers,          \* the Compilers constructed, by outputFile
    events,             \* what the last call did, in order
    clock,              \* processBundle calls so far
    filesFound          \* what the last getFilesToProcess call on given files came to

recordVars == <<changed, cache, shouldBeGenerated, selector, mangledSelector,
                screenId, scope, customSelectors, components, properties,
                pseudoClasses>>
callVars == <<op, args, ret, recomputed, cacheConfig>>
legacyVars == <<R, T, data, D, thrown>>
bundlerVars == <<watchFiles, bundlesBuildCache, watchers, fileSystem, written,
                 compilers, events, clock, filesFound>>
vars == <<object, hooks, recordVars, callVars, legacyVars, bundlerVars>>

(***************************************************************************)
(* JavaScript values                                                       *)
(***************************************************************************)
\* null and undefined of a string-valued field or result
Null == "<null>"
Undefined == "<undefined>"
\* a template literal `${v}` of a nullable string
Str(v) == IF v = Null THEN "null" ELSE IF v = Undefined THEN "undefined" ELSE v
\* a numeric field that may be null or undefined
NullNumber == <<"null">>
UndefinedNumber == <<"undefined">>
Number(n) == <<"number", n>>

CharAt(s, i) == SubSeq(s, i, i)
CharsOf(s) == { CharAt(s, i) : i \in 1..Len(s) }
Digits == CharsOf("0123456789")
\* the class [-_a-zA-Z\d] of the escaping expressions
IdentChars == CharsOf("-_abcdefghijklmnopqrstuvwxyzABCDEFGHIJKLMNOPQRSTUVWXYZ") \cup Digits
\* the class \s, as far as the inputs go
WhiteSpace == {" ", "\t", "\n", "\r"}

RECURSIVE Join(_, _)
Join(list, sep) ==
    IF list = <<>> THEN ""
    ELSE IF Len(list) = 1 THEN list[1]
    ELSE list[1] \o sep \o Join(Tail(list), sep)

\* String.prototype.split with a one-character separator
Split(s, sep) ==
    LET cuts == { i \in 1..Len(s) : CharAt(s, i) = sep }
        n == Cardinality(cuts)
        cut(k) == IF k = 0 THEN 0
                  ELSE IF k = n + 1 THEN Len(s) + 1
                  ELSE CHOOSE i \in cuts : Cardinality({ j \in cuts : j < i }) = k - 1
    IN  [k \in 1..(n + 1) |-> SubSeq(s, cut(k - 1) + 1, cut(k) - 1)]

Includes(list, x) == \E i \in 1..Len(list) : list[i] = x

(***************************************************************************)
(* Objects used as ordered maps: a sequence of <<key, value>> pairs with    *)
(* unique keys, in insertion order (the order of Object.keys and for-in).  *)
(***************************************************************************)
Keys(m) == [i \in 1..Len(m) |-> m[i][1]]
HasKey(m, k) == \E i \in 1..Len(m) : m[i][1] = k
Get(m, k) == m[CHOOSE i \in 1..Len(m) : m[i][1] = k][2]
\* m[k] = v: an existing key keeps its place and takes the value, a new key is appended
Put(m, k, v) ==
    IF HasKey(m, k) THEN [i \in 1..Len(m) |-> IF m[i][1] = k THEN <<k, v>> ELSE m[i]]
    ELSE Append(m, <<k, v>>)
RECURSIVE Spread(_, _)
\* {...m, ...n}
Spread(m, n) == IF n = <<>> THEN m ELSE Spread(Put(m, n[1][1], n[1][2]), Tail(n))

(***************************************************************************)
(* The escaping expressions                                                *)
(***************************************************************************)
RECURSIVE EscapeSelector(_)
\* s.replace(/([^-_a-zA-Z\d])/g, '\\$1')
EscapeSelector(s) ==
    IF s = "" THEN ""
    ELSE (IF CharAt(s, 1) \in IdentChars THEN CharAt(s, 1) ELSE "\\" \o CharAt(s, 1))
         \o EscapeSelector(Tail(s))

RECURSIVE UnescapeSelector(_)
\* s.replace(/\\([^-_a-zA-Z\d])/g, '$1')
UnescapeSelector(s) ==
    IF s = "" THEN ""
    ELSE IF Len(s) >= 2 /\ CharAt(s, 1) = "\\" /\ CharAt(s, 2) \notin IdentChars
         THEN CharAt(s, 2) \o UnescapeSelector(SubSeq(s, 3, Len(s)))
         ELSE CharAt(s, 1) \o UnescapeSelector(Tail(s))

(***************************************************************************)
(* Collaborators outside Compiler/CssRecord.ts                             *)
(***************************************************************************)
\* One 'cssRecord:addProperty' listener applied to a payload. "expandMargin" is a
\* shorthand listener: it replaces margin by margin-left and margin-right.
RECURSIVE ApplyListener(_, _)
ApplyListener(listener, payload) ==
    IF payload = <<>> THEN <<>>
    ELSE (IF listener = "expandMargin" /\ payload[1][1] = "margin"
          THEN <<<<"margin-left", payload[1][2]>>, <<"margin-right", payload[1][2]>>>>
          ELSE <<payload[1]>>)
         \o ApplyListener(listener, Tail(payload))

RECURSIVE callHook(_, _)
\* hooks.callHook(name, payload): the payload folded through the listeners in
\* registration order; the payload itself when there are none
callHook(listeners, payload) ==
    IF listeners = <<>> THEN payload
    ELSE callHook(Tail(listeners), ApplyListener(Head(listeners), payload))

MangleAlphabet == "abcdefghijklmnopqrstuvwxyz"
\* the order in which the process first asked the mangler for each selector
MangleRequests == <<"m:10px", "1a", "a">>
\* minifiedSelectorGenerator.getMangledSelector(s): the identifier assigned at
\* the first request for s, the same one ever after
getMangledSelector(s) ==
    CharAt(MangleAlphabet, CHOOSE i \in 1..Len(MangleRequests) : MangleRequests[i] = s)

(***************************************************************************)
(* class CssRecord: the mutators, as functions of the fields they write    *)
(***************************************************************************)
\* addProperty without the early return of lines 191-193
addProperty_NoGuard(props, listeners, property, value) ==
    Spread(props, callHook(listeners, <<<<property, value>>>>))

\* addProperty (lines 190-200): the properties after the call
addProperty(props, listeners, property, value) ==
    IF HasKey(props, property) THEN props
    ELSE Spread(props, callHook(listeners, <<<<property, value>>>>))

RECURSIVE addProperties(_, _, _)
\* addProperties (lines 183-188): addProperty for every key, in order
addProperties(props, listeners, given) ==
    IF given = <<>> THEN props
    ELSE addProperties(addProperty(props, listeners, given[1][1], given[1][2]),
                       listeners, Tail(given))

\* whether addProperty sets changed (line 198 is reached)
addPropertyChanges(props, property) == ~HasKey(props, property)
\* whether addProperties sets changed (line 185 is reached)
addPropertiesChanges(given) == given # <<>>

RECURSIVE addPseudoClasses(_, _)
\* addPseudoClasses (lines 207-212) of an array
addPseudoClasses(list, given) ==
    IF given = <<>> THEN list
    ELSE addPseudoClasses(IF Includes(list, given[1]) THEN list ELSE Append(list, given[1]),
                          Tail(given))
\* addPseudoClasses without line 209
addPseudoClassesChanges_Never(list, given) == FALSE

\* whether addPseudoClasses sets changed (line 209 is reached)
addPseudoClassesChanges(list, given) == \E i \in 1..Len(given) : ~Includes(list, given[i])

\* addCustomSelector (lines 215-221)
addCustomSelector(list, given) == IF Includes(list, given) THEN list ELSE Append(list, given)

\* addComponent without the test of line 232: the last chain list is kept
addComponent_LastWins(comps, alias, selectorsChain) ==
    Put(comps, EscapeSelector(alias), selectorsChain)

\* addComponent (lines 229-238): components maps the escaped alias to its chains
addComponent(comps, alias, selectorsChain) ==
    IF HasKey(comps, EscapeSelector(alias)) THEN comps
    ELSE Append(comps, <<EscapeSelector(alias), selectorsChain>>)
\* whether addComponent sets changed (line 236 is reached)
addComponentChanges(comps, alias) == ~HasKey(comps, EscapeSelector(alias))

RECURSIVE addComponents(_, _)
\* addComponents (lines 223-227)
addComponents(comps, given) ==
    IF given = <<>> THEN comps
    ELSE addComponents(addComponent(comps, given[1][1], given[1][2]), Tail(given))
addComponentsChanges(comps, given) ==
    \E i \in 1..Len(given) : ~HasKey(comps, EscapeSelector(given[i][1]))

\* configure, lines 169-173: the stored selector
ConfiguredSelector(given) ==
    LET escaped == EscapeSelector(given)
    IN  IF CharAt(escaped, 1) \in Digits THEN "\\3" \o escaped ELSE escaped

(***************************************************************************)
(* class CssRecord: generateCss (lines 240-312)                            *)
(***************************************************************************)
\* (/^\s*$/gm).test(s): some line of s holds nothing but white space
IsBlankChain(s) ==
    \E i \in 1..Len(Split(s, "\n")) :
        \A j \in 1..Len(Split(s, "\n")[i]) : CharAt(Split(s, "\n")[i], j) \in WhiteSpace

RECURSIVE SkipWhiteSpace(_)
SkipWhiteSpace(s) ==
    IF s # "" /\ CharAt(s, 1) \in WhiteSpace THEN SkipWhiteSpace(Tail(s)) ELSE s

RECURSIVE CollapseWhiteSpace(_)
\* s.replace(/\s\s+/g, ' '): a run of two or more white-space characters
\* becomes one space, a single one stays as it is
CollapseWhiteSpace(s) ==
    IF s = "" THEN ""
    ELSE IF Len(s) >= 2 /\ CharAt(s, 1) \in WhiteSpace /\ CharAt(s, 2) \in WhiteSpace
         THEN " " \o CollapseWhiteSpace(SkipWhiteSpace(s))
         ELSE CharAt(s, 1) \o CollapseWhiteSpace(Tail(s))

\* lines 252-254: a chain list holding one blank chain is emptied, in place
PoppedComponents(comps) ==
    [i \in 1..Len(comps) |->
        IF Len(comps[i][2]) = 1 /\ IsBlankChain(comps[i][2][1])
        THEN <<comps[i][1], <<>>>> ELSE comps[i]]

\* lines 261-264: one compound selector per chain
ChainedSelectors(selectorsChain, componentSelector) ==
    [i \in 1..Len(selectorsChain) |->
        Join(Split(CollapseWhiteSpace(selectorsChain[i]), " ") \o <<componentSelector>>, ".")]

RECURSIVE ComponentsSelectors(_)
\* lines 250-265, of the components as PoppedComponents leaves them
ComponentsSelectors(comps) ==
    IF comps = <<>> THEN <<>>
    ELSE (IF comps[1][2] = <<>> THEN <<comps[1][1]>>
          ELSE ChainedSelectors(comps[1][2], comps[1][1]))
         \o ComponentsSelectors(Tail(comps))

Suffixed(list, pseudoClass) == [i \in 1..Len(list) |-> list[i] \o ":" \o pseudoClass]

\* line 244
CssRecordSelector(rec, config) ==
    IF config.mangleSelectors THEN rec.mangledSelector ELSE rec.selector

RECURSIVE PseudoClassSelectors(_, _, _)
\* lines 273-279, over the pseudo-classes in order
PseudoClassSelectors(cssRecordSelector, componentsSelectors, pseudo) ==
    IF pseudo = <<>> THEN <<>>
    ELSE <<Str(cssRecordSelector) \o ":" \o pseudo[1]>>
         \o Suffixed(componentsSelectors, pseudo[1])
         \o PseudoClassSelectors(cssRecordSelector, componentsSelectors, Tail(pseudo))

\* lines 267-285 with the plain selectors of line 284 kept beside the suffixed ones
ClassSelectors_KeepPlain(rec, config) ==
    LET componentsSelectors == ComponentsSelectors(PoppedComponents(rec.components))
    IN  <<Str(CssRecordSelector(rec, config))>> \o componentsSelectors
        \o PseudoClassSelectors(CssRecordSelector(rec, config), componentsSelectors,
                                rec.pseudoClasses)

\* lines 267-285: classSelectors
ClassSelectors(rec, config) ==
    LET componentsSelectors == ComponentsSelectors(PoppedComponents(rec.components))
    IN  IF rec.pseudoClasses # <<>>
        THEN PseudoClassSelectors(CssRecordSelector(rec, config), componentsSelectors,
                                  rec.pseudoClasses)
        ELSE <<Str(CssRecordSelector(rec, config))>> \o componentsSelectors

\* lines 267-285: customSelectors, assigned anew for every pseudo-class
CustomSelectors(rec) ==
    IF rec.pseudoClasses # <<>>
    THEN Suffixed(rec.customSelectors, rec.pseudoClasses[Len(rec.pseudoClasses)])
    ELSE rec.customSelectors

\* lines 287-295 with the scope put before the class selectors alone
Selectors_CustomUnscoped(rec, config) ==
    LET scopePart == IF rec.scope \notin {Null, ""} THEN rec.scope ELSE ""
        class == ClassSelectors(rec, config)
    IN  CustomSelectors(rec)
        \o [i \in 1..Len(class) |-> scopePart \o "." \o class[i]]

\* lines 287-295: selectors
Selectors(rec, config) ==
    LET scopePart == IF rec.scope \notin {Null, ""} THEN rec.scope ELSE ""
        custom == CustomSelectors(rec)
        class == ClassSelectors(rec, config)
    IN  [i \in 1..Len(custom) |-> scopePart \o custom[i]]
        \o [i \in 1..Len(class) |-> scopePart \o "." \o class[i]]

\* line 303 without the spacing of line 298
Declaration_NoSpacing(config, property, value) ==
    (IF config.minimize THEN "" ELSE "\t") \o property \o ":" \o value

\* line 303: one declaration
Declaration(config, property, value) ==
    (IF config.minimize THEN "" ELSE "\t") \o property \o ":"
    \o (IF config.minimize THEN "" ELSE " ") \o value

\* lines 300-305: the text stored in cache
CssText(rec, config) ==
    LET newLine == IF config.minimize THEN "" ELSE "\n"
    IN  Join(Selectors(rec, config), "," \o newLine)
        \o "{" \o newLine
        \o Join([i \in 1..Len(rec.properties) |->
                    Declaration(config, rec.properties[i][1], rec.properties[i][2])],
                ";" \o newLine)
        \o newLine \o "}" \o newLine

\* generateCss without the cache test of line 241
MustGenerate_Always(isChanged, cached) == TRUE

\* line 241: whether generateCss computes the text
MustGenerate(isChanged, cached) == isChanged \/ cached \in {Null, ""}

(***************************************************************************)
(* The default-export (legacy) CssRecord, lines 3-104. A record value is   *)
(* [selectors, properties, pseudoClasses].                                 *)
(***************************************************************************)
EmptyRecord == [selectors |-> <<>>, properties |-> <<>>, pseudoClasses |-> <<>>]
NoData == [none |-> TRUE]
NoConfig == [none |-> TRUE]
NoRecord == [none |-> TRUE]

\* addSelector (lines 32-44)
addSelector(rec, given, pseudoClass) ==
    LET escaped == EscapeSelector(given)
        full == IF pseudoClass \notin {Null, ""} THEN escaped \o ":" \o pseudoClass
                ELSE escaped
    IN  IF Includes(rec.selectors, full) THEN rec
        ELSE [rec EXCEPT !.selectors = Append(@, full)]

RECURSIVE addSelectors(_, _)
\* addSelector for each selector of a list (lines 17-19, 89-91)
addSelectors(rec, given) ==
    IF given = <<>> THEN rec
    ELSE addSelectors(addSelector(rec, given[1], Null), Tail(given))

\* addProperty (lines 26-30), hasProperty (lines 50-52)
legacyAddProperty(rec, property, value) ==
    IF HasKey(rec.properties, property) THEN rec
    ELSE [rec EXCEPT !.properties = Put(@, property, value)]

RECURSIVE legacyAddProperties(_, _)
\* lines 99-101
legacyAddProperties(rec, given) ==
    IF given = <<>> THEN rec
    ELSE legacyAddProperties(legacyAddProperty(rec, given[1][1], given[1][2]), Tail(given))

\* constructor (lines 11-24) with a list of selectors
NewCssRecord(givenSelectors, givenProperties, givenPseudoClasses) ==
    [addSelectors(EmptyRecord, givenSelectors)
        EXCEPT !.properties = givenProperties, !.pseudoClasses = givenPseudoClasses]

\* compile (lines 58-67)
compile(rec, config) ==
    LET minimize == IF "minimize" \in DOMAIN config THEN config.minimize ELSE FALSE
        newLine == IF minimize THEN "" ELSE "\n"
    IN  Join([i \in 1..Len(rec.selectors) |-> "." \o rec.selectors[i]], "," \o newLine)
        \o "{" \o newLine
        \o Join([i \in 1..Len(rec.properties) |->
                    (IF minimize THEN "" ELSE "\t") \o rec.properties[i][1] \o ":"
                    \o rec.properties[i][2]],
                ";" \o newLine)
        \o newLine \o "}" \o newLine

\* line 76: this.properties.length of a plain object is the value of its key
\* "length", undefined when it has none
PropertiesLengthTruthy(props) ==
    HasKey(props, "length") /\ Get(props, "length") \notin {"", Null, Undefined}

\* serialize (lines 69-80)
serialize(rec) ==
    LET serializedObject ==
            [selectors |-> [i \in 1..Len(rec.selectors) |-> UnescapeSelector(rec.selectors[i])],
             properties |-> rec.properties]
    IN  IF PropertiesLengthTruthy(rec.properties)
        THEN [selectors |-> serializedObject.selectors,
              properties |-> serializedObject.properties,
              pseudoClasses |-> rec.pseudoClasses]
        ELSE serializedObject

\* deserialize (lines 82-86): an absent pseudoClasses takes the constructor's default
deserialize(snapshot) ==
    [selectors |-> snapshot.selectors,
     properties |-> snapshot.properties,
     pseudoClasses |-> IF "pseudoClasses" \in DOMAIN snapshot
                       THEN snapshot.pseudoClasses ELSE <<>>]

\* hydrate (lines 88-102): the record after the call and the exception it raised.
\* Reading .length of an absent pseudoClasses (line 93) is a TypeError.
hydrate(rec, snapshot) ==
    LET withSelectors == addSelectors(rec, snapshot.selectors)
    IN  IF "pseudoClasses" \notin DOMAIN snapshot
        THEN [rec |-> withSelectors, thrown |-> "TypeError"]
        ELSE [rec |-> legacyAddProperties(
                        [withSelectors EXCEPT !.pseudoClasses =
                            @ \o SelectSeq(snapshot.pseudoClasses,
                                           LAMBDA p : ~Includes(rec.pseudoClasses, p))],
                        snapshot.properties),
              thrown |-> Null]

(***************************************************************************)
(* class Bundler (Bundler.ts lines 50-316)                                 *)
(*                                                                         *)
(* The Compiler and the CompilationResult of @stylify/stylify are not part *)
(* of the sources at hand; they are modelled after their description: a    *)
(* CompilationResult accumulates what was compiled into it, compile        *)
(* returns the result it was given (a fresh one when given none) with the  *)
(* content added.                                                          *)
(***************************************************************************)
NoResult == [none |-> TRUE]

\* new Compiler(compilerConfig) with onPrepareCompilationResult of lines 147-162:
\* the bundle options of the constructing call stay with the compiler
NewCompiler(id, bundleOptions) ==
    [id |-> id, mangleSelectors |-> bundleOptions.mangleSelectors,
     scope |-> bundleOptions.scope, components |-> {}]

\* compiler.configure({components})
Compiler_configure(compiler, given) ==
    [compiler EXCEPT !.components = @ \cup { given[i][1] : i \in 1..Len(given) }]

\* compiler.compile(content, existingResult): a fresh result is prepared by
\* onPrepareCompilationResult; the content is compiled with the components
\* the compiler knows
Compiler_compile(compiler, content, existing) ==
    LET result == IF existing = NoResult
                  THEN [compiler |-> compiler.id,
                        mangleSelectors |-> compiler.mangleSelectors,
                        scope |-> compiler.scope, compiled |-> {}]
                  ELSE existing
    IN  [result EXCEPT !.compiled = @ \cup {<<content, compiler.components>>}]

\* compiler.rewriteSelectors(result, content): the content with its selectors
\* replaced by the mangled ones; rewritten content stays as it is
Compiler_rewriteSelectors(result, text) ==
    IF text # "" /\ SubSeq(text, Len(text), Len(text)) = "'" THEN text ELSE text \o "'"

\* compilationResult.generateCss()
CompilationResult_generateCss(result) == [css |-> result.compiled]
\* JSON.stringify of compilationResult.serialize() without the members
\* deleted in lines 239-244
CompilationResult_serialize(result) ==
    [json |-> result.compiled, mangleSelectors |-> result.mangleSelectors]

\* lines 70-80: the content-options processor of the 'files' option
FilesProcessor(contentOptions, optionMatchValue) ==
    LET optionMatchValueToArray ==
            SelectSeq(Split(optionMatchValue, " "),
                      LAMBDA value : \E i \in 1..Len(value) : CharAt(value, i) \notin WhiteSpace)
    IN  [contentOptions EXCEPT !.files = @ \o optionMatchValueToArray]

\* compiler.getOptionsFromContent(content): the options a content declares,
\* the 'files' option run through its processor
Compiler_getOptionsFromContent(content) ==
    LET declared == [components |-> content.components,
                     pregenerate |-> content.pregenerate, files |-> <<>>]
    IN  IF content.files = Undefined THEN declared
        ELSE FilesProcessor(declared, content.files)

\* path.dirname and path.join of line 265
Dirname(filePath) ==
    LET parts == Split(filePath, "/")
    IN  IF Len(parts) = 1 THEN "." ELSE Join(SubSeq(parts, 1, Len(parts) - 1), "/")
PathJoin(dir, name) == IF dir = "." THEN name ELSE dir \o "/" \o name

\* fg.sync(filesMasks) for masks without wildcards: the files that exist, once each
FgSync(files, filesMasks) ==
    LET found == SelectSeq(filesMasks, LAMBDA mask : HasKey(files, mask))
    IN  SelectSeq([i \in 1..Len(found) |->
                      IF \E j \in 1..(i - 1) : found[j] = found[i] THEN Undefined ELSE found[i]],
                  LAMBDA filePath : filePath # Undefined)

RECURSIVE getFilesToProcess(_, _)
RECURSIVE FilesOfPaths(_, _)
\* lines 258-280: the loop over the file paths
FilesOfPaths(files, filePaths) ==
    IF filePaths = <<>> THEN <<>>
    ELSE LET filePath == filePaths[1]
             fileContent == Get(files, filePath)
             contentOptionsFromFiles == Compiler_getOptionsFromContent(fileContent)
             filePathsFromContent ==
                 [i \in 1..Len(contentOptionsFromFiles.files) |->
                     PathJoin(Dirname(filePath), contentOptionsFromFiles.files[i])]
         IN  <<[filePath |-> filePath, contentOptions |-> contentOptionsFromFiles,
                content |-> fileContent.text]>>
             \o (IF filePathsFromContent # <<>>
                 THEN getFilesToProcess(files, filePathsFromContent) ELSE <<>>)
             \o FilesOfPaths(files, Tail(filePaths))
\* getFilesToProcess (lines 253-283)
getFilesToProcess(files, filesMasks) == FilesOfPaths(files, FgSync(files, filesMasks))

\* line 261-267: the paths a file's content names
FilePathsFromContent(files, filePath) ==
    LET named == Compiler_getOptionsFromContent(Get(files, filePath)).files
    IN  [i \in 1..Len(named) |-> PathJoin(Dirname(filePath), named[i])]

RECURSIVE ExhaustsStack(_, _, _)
\* whether the calls of line 277 nest deeper than the call stack takes: the
\* call for filesMasks needs more than depth frames
ExhaustsStack(files, filesMasks, depth) ==
    IF depth = 0 THEN TRUE
    ELSE \E i \in 1..Len(FgSync(files, filesMasks)) :
            LET filePathsFromContent == FilePathsFromContent(files, FgSync(files, filesMasks)[i])
            IN  /\ filePathsFromContent # <<>>
                /\ ExhaustsStack(files, filePathsFromContent, depth - 1)

NotCalled == [none |-> TRUE]
\* a getFilesToProcess call: what it returns, or the RangeError of the
\* exhausted call stack
getFilesToProcessCall(files, filesMasks, depth) ==
    IF ExhaustsStack(files, filesMasks, depth)
    THEN [returned |-> <<>>, thrown |-> "RangeError"]
    ELSE [returned |-> getFilesToProcess(files, filesMasks), thrown |-> Null]

\* What a call did, in order: each step of processBundle that reaches the
\* compiler, the file system or the watchers leaves one entry
Event(kind, outputFile, filePath, existing, returned) ==
    [kind |-> kind, outputFile |-> outputFile, filePath |-> filePath,
     existing |-> existing, returned |-> returned]

\* the members of a build-cache entry (lines 31-36, 163-168)
EntryKeys == {"compiler", "compilationResult", "buildTime", "files"}
\* line 187: fileToProcessOptions.filePath in bundleBuildCache
InBundleBuildCache(entry, filePath) == filePath \in EntryKeys

\* the existing result handed to compiler.compile (lines 210 and 216)
ExistingResult_None(entry) == NoResult
ExistingResult(entry) == entry.compilationResult

\* lines 207-217 with the content compiled before the pregenerate text
CompileFile_ContentFirst(entry, outputFile, file) ==
    LET pregenerate == file.contentOptions.pregenerate
        content == Compiler_compile(entry.compiler, file.content, ExistingResult(entry))
        result == Compiler_compile(entry.compiler, pregenerate, content)
    IN  IF pregenerate \in {Undefined, ""}
        THEN [entry |-> [entry EXCEPT !.compilationResult = content],
              events |-> <<Event("compile", outputFile, file.filePath,
                                 ExistingResult(entry), content)>>]
        ELSE [entry |-> [entry EXCEPT !.compilationResult = result],
              events |-> <<Event("compile", outputFile, file.filePath,
                                 ExistingResult(entry), content),
                           Event("pregenerate", outputFile, file.filePath, content, result)>>]

\* lines 207-217: the pregenerate text, when there is one, then the content
CompileFile(entry, outputFile, file) ==
    LET pregenerate == file.contentOptions.pregenerate
        pregenerated ==
            IF pregenerate \in {Undefined, ""} THEN entry
            ELSE [entry EXCEPT !.compilationResult =
                      Compiler_compile(entry.compiler, pregenerate, ExistingResult(entry))]
        compiled ==
            [pregenerated EXCEPT !.compilationResult =
                Compiler_compile(pregenerated.compiler, file.content,
                                 ExistingResult(pregenerated))]
    IN  [entry |-> compiled,
         events |->
            (IF pregenerate \in {Undefined, ""} THEN <<>>
             ELSE <<Event("pregenerate", outputFile, file.filePath,
                          ExistingResult(entry), pregenerated.compilationResult)>>)
            \o <<Event("compile", outputFile, file.filePath,
                       ExistingResult(pregenerated), compiled.compilationResult)>>]

\* lines 182-225: one pass of the loop over filesToProcess
ProcessFile(b, bundleOptions, file) ==
    LET outputFile == bundleOptions.outputFile
        bundleBuildCache == Get(b.cache, outputFile)
        isNew == ~InBundleBuildCache(bundleBuildCache, file.filePath)
        watched == isNew /\ b.watchFiles
        listed == IF isNew THEN [bundleBuildCache EXCEPT !.files = Append(@, file.filePath)]
                  ELSE bundleBuildCache
        hasComponents == file.contentOptions.components # <<>>
        configured ==
            IF hasComponents
            THEN [listed EXCEPT !.compiler =
                     Compiler_configure(@, file.contentOptions.components)]
            ELSE listed
        compiled == CompileFile(configured, outputFile, file)
        processedContent ==
            Compiler_rewriteSelectors(compiled.entry.compilationResult, file.content)
    IN  IF ~HasKey(b.files, file.filePath) THEN b
        ELSE [b EXCEPT
                !.cache = Put(@, outputFile, compiled.entry),
                !.watchers = IF watched THEN Append(@, <<file.filePath, bundleOptions>>) ELSE @,
                !.files = IF bundleOptions.mangleSelectors
                          THEN Put(@, file.filePath,
                                   [Get(@, file.filePath) EXCEPT !.text = processedContent])
                          ELSE @,
                !.events = @
                    \o (IF watched
                        THEN <<Event("watchFile", outputFile, file.filePath, NoResult, NoResult)>>
                        ELSE <<>>)
                    \o (IF hasComponents
                        THEN <<Event("configure", outputFile, file.filePath, NoResult, NoResult)>>
                        ELSE <<>>)
                    \o compiled.events
                    \o (IF bundleOptions.mangleSelectors
                        THEN <<Event("rewrite", outputFile, file.filePath,
                                     compiled.entry.compilationResult, NoResult)>>
                        ELSE <<>>)]

RECURSIVE ProcessFiles(_, _, _)
\* lines 181-226
ProcessFiles(b, bundleOptions, filesToProcess) ==
    IF filesToProcess = <<>> THEN b
    ELSE ProcessFiles(ProcessFile(b, bundleOptions, filesToProcess[1]), bundleOptions,
                      Tail(filesToProcess))

\* lines 176-179 with the build time of line 249 taken before the return
Skipping_BuildTime(b, bundleOptions) ==
    [b EXCEPT !.cache = Put(@, bundleOptions.outputFile,
                            [Get(@, bundleOptions.outputFile) EXCEPT
                                !.buildTime = Number(b.clock)]),
              !.events = Append(@, Event("skip", bundleOptions.outputFile, "",
                                         NoResult, NoResult))]

\* lines 176-179: no files found, the call returns
Skipping(b, bundleOptions) ==
    [b EXCEPT !.events = Append(@, Event("skip", bundleOptions.outputFile, "",
                                         NoResult, NoResult))]

\* lines 228-250: the output file, the cache dump and the build time
WriteBundle(b, bundleOptions) ==
    LET outputFile == bundleOptions.outputFile
        result == Get(b.cache, outputFile).compilationResult
    IN  [b EXCEPT
            !.written =
                IF bundleOptions.dumpCache
                THEN Put(Put(@, outputFile, CompilationResult_generateCss(result)),
                         outputFile \o ".json", CompilationResult_serialize(result))
                ELSE Put(@, outputFile, CompilationResult_generateCss(result)),
            !.cache = Put(@, outputFile,
                          [Get(@, outputFile) EXCEPT !.buildTime = Number(b.clock)]),
            !.events = @
                \o <<Event("writeOutput", outputFile, outputFile, result, NoResult)>>
                \o (IF bundleOptions.dumpCache
                    THEN <<Event("dumpCache", outputFile, outputFile \o ".json",
                                 result, NoResult)>>
                    ELSE <<>>)]

\* processBundle (lines 140-251); the clock tells the calls apart and stands
\* for the time of line 141
processBundle(b, bundleOptions) ==
    LET outputFile == bundleOptions.outputFile
        started == [b EXCEPT !.clock = @ + 1,
                             !.events = Append(@, Event("processBundle", outputFile, "",
                                                        NoResult, NoResult))]
        cached ==
            IF HasKey(started.cache, outputFile) THEN started
            ELSE [started EXCEPT
                    !.compilers = Append(@, outputFile),
                    !.cache = Put(@, outputFile,
                                  [compiler |-> NewCompiler(Len(started.compilers) + 1,
                                                            bundleOptions),
                                   compilationResult |-> NoResult,
                                   buildTime |-> NullNumber,
                                   files |-> <<>>]),
                    !.events = Append(@, Event("newCompiler", outputFile, "",
                                               NoResult, NoResult))]
        filesToProcess == getFilesToProcess(cached.files, bundleOptions.files)
    IN  IF filesToProcess = <<>> THEN Skipping(cached, bundleOptions)
        ELSE WriteBundle(ProcessFiles(cached, bundleOptions, filesToProcess), bundleOptions)

RECURSIVE bundle(_, _)
\* bundle (lines 83-138): the loop of lines 86-88; what follows it reports
bundle(b, bundles) ==
    IF bundles = <<>> THEN b
    ELSE bundle(processBundle(b, bundles[1]), Tail(bundles))

\* the listener of lines 190-197
WatchListener(b, listener) ==
    processBundle(b, [listener[2] EXCEPT !.files = <<listener[1]>>])

RECURSIVE WatchListeners(_, _)
\* a change of a watched file: the listeners registered for it run in turn
WatchListeners(b, listeners) ==
    IF listeners = <<>> THEN b
    ELSE WatchListeners(WatchListener(b, listeners[1]), Tail(listeners))

(***************************************************************************)
(* Inputs                                                                  *)
(***************************************************************************)
\* how many pseudo-class names and property values the calls draw from
MaxPseudoClasses == 2
MaxValues == 2

PseudoClassNames == SubSeq(<<"hover", "focus", "active">>, 1, MaxPseudoClasses)
PropertyValues == SubSeq(<<"10px", "20px", "30px">>, 1, MaxValues)
\* addProperty's arguments: margin with every value, margin-left with the first
PropertyInputs ==
    { <<"margin", PropertyValues[i]>> : i \in 1..Len(PropertyValues) }
        \cup { <<"margin-left", PropertyValues[1]>> }
CustomSelectorNames == {"h1"}

Configs ==
    { [selector |-> "m:10px", properties |-> <<<<"margin", "10px">>>>],
      [selector |-> "1a", screenId |-> 1, scope |-> "#app ", shouldBeGenerated |-> TRUE,
       pseudoClasses |-> <<"hover">>] }
PropertiesInputs ==
    { <<<<"margin-left", "10px">>, <<"margin", "20px">>>> }
\* addPseudoClasses takes one name as a string, or an array of names
PseudoClassesInputs == { <<"string", PseudoClassNames[1]>>, <<"array", PseudoClassNames>> }
ComponentInputs == { <<"md:btn", <<"a  b", "">>>> }
ComponentsInputs == { <<<<"md:btn", <<" ">>>>>> }
CompileConfigs ==
    { [minimize |-> FALSE, mangleSelectors |-> FALSE],
      [minimize |-> FALSE, mangleSelectors |-> TRUE],
      [minimize |-> TRUE, mangleSelectors |-> FALSE] }

\* The inputs of the Bundler: the files on disk and the bundles asked for
MaxCalls == 4

SourceFiles ==
    << <<"src/a.html", [text |-> "A", components |-> <<<<"btn", <<"c1">>>>>>,
                        pregenerate |-> "P", files |-> "b.html "]>>,
       <<"src/b.html", [text |-> "B", components |-> <<>>,
                        pregenerate |-> Undefined, files |-> Undefined]>> >>
BundleA ==
    [outputFile |-> "out/a.css", files |-> <<"src/a.html">>,
     mangleSelectors |-> FALSE, dumpCache |-> FALSE, scope |-> Undefined]
BundleB ==
    [outputFile |-> "out/b.css", files |-> <<"src/b.html", "src/missing.html">>,
     mangleSelectors |-> TRUE, dumpCache |-> TRUE, scope |-> "#app "]
BundleNone ==
    [outputFile |-> "out/a.css", files |-> <<"src/missing.html">>,
     mangleSelectors |-> FALSE, dumpCache |-> FALSE, scope |-> Undefined]
BundlesInputs == { <<BundleA>>, <<BundleNone>>, <<BundleB, BundleA>> }

\* The inputs of getFilesToProcess: sets of files, some naming each other, and
\* masks; MaxDepth is the number of nested calls the call stack takes, more
\* than any set has files
MaxDepth == 4
CyclicFiles ==
    << <<"src/a.html", [text |-> "A", components |-> <<>>,
                        pregenerate |-> Undefined, files |-> "b.html"]>>,
       <<"src/b.html", [text |-> "B", components |-> <<>>,
                        pregenerate |-> Undefined, files |-> "a.html"]>> >>
SelfFiles ==
    << <<"src/a.html", [text |-> "A", components |-> <<>>,
                        pregenerate |-> Undefined, files |-> " a.html "]>> >>
FileSets == { SourceFiles, CyclicFiles, SelfFiles }
MasksInputs == { <<"src/a.html">>, <<"src/b.html", "src/missing.html">>,
                 <<"src/b.html", "src/a.html">> }

(***************************************************************************)
(* The state machine                                                       *)
(***************************************************************************)
\* the CssRecord at hand as one value
this ==
    [selector |-> selector, mangledSelector |-> mangledSelector, screenId |-> screenId,
     scope |-> scope, shouldBeGenerated |-> shouldBeGenerated,
     customSelectors |-> customSelectors, components |-> components,
     properties |-> properties, pseudoClasses |-> pseudoClasses]

Called(method, argument, result) ==
    /\ op' = method
    /\ args' = argument
    /\ ret' = result
    /\ cacheConfig' = IF method = "generateCss" /\ MustGenerate(changed, cache)
                      THEN argument ELSE cacheConfig

\* The inputs of the default-export class
\* addSelector's arguments: a selector and a pseudo-class or null
LegacySelectors == {<<"m:10px", Null>>, <<"a", "hover">>}
LegacySources ==
    { NewCssRecord(<<>>, <<>>, <<>>), NewCssRecord(<<>>, <<>>, <<"hover">>) }
LegacyProperties == {<<"margin", "10px">>, <<"margin", "20px">>}
LegacyTargets ==
    { NewCssRecord(<<>>, <<>>, <<>>),
      NewCssRecord(<<"a">>, <<<<"margin", "20px">>>>, <<"focus">>) }

\* new CssRecord(config) (lines 136-160): the field initialisers, then configure
\* on the fresh record
Init ==
    /\ object \in {"CssRecord", "default", "Bundler"}
    /\ hooks \in IF object = "CssRecord" THEN {<<>>, <<"expandMargin">>} ELSE {<<>>}
    /\ \E config \in IF object = "CssRecord" THEN Configs
                     ELSE {[selector |-> "a"]} :
        LET has(k) == k \in DOMAIN config IN
        /\ mangledSelector = getMangledSelector(config.selector)
        /\ screenId = IF has("screenId") THEN Number(config.screenId) ELSE UndefinedNumber
        /\ selector = ConfiguredSelector(config.selector)
        /\ scope = IF has("scope") /\ config.scope # "" THEN config.scope ELSE Null
        /\ shouldBeGenerated =
              IF has("shouldBeGenerated") THEN config.shouldBeGenerated ELSE FALSE
        /\ components = addComponents(<<>>, IF has("components") THEN config.components ELSE <<>>)
        /\ properties = addProperties(<<>>, hooks,
                                      IF has("properties") THEN config.properties ELSE <<>>)
        /\ pseudoClasses = addPseudoClasses(<<>>,
                                IF has("pseudoClasses") THEN config.pseudoClasses ELSE <<>>)
        /\ args = config
    /\ changed = TRUE
    /\ cache = Null
    /\ customSelectors = <<>>
    /\ op = "constructor"
    /\ ret = Undefined
    /\ recomputed = FALSE
    /\ cacheConfig = NoConfig
    /\ R \in IF object = "default" THEN LegacySources ELSE {EmptyRecord}
    /\ T \in IF object = "default" THEN LegacyTargets ELSE {EmptyRecord}
    /\ data = NoData
    /\ D = NoRecord
    /\ thrown = Null
    /\ watchFiles \in IF object = "Bundler" THEN BOOLEAN ELSE {FALSE}
    /\ fileSystem = IF object = "Bundler" THEN SourceFiles ELSE <<>>
    /\ bundlesBuildCache = <<>>
    /\ watchers = <<>>
    /\ written = <<>>
    /\ compilers = <<>>
    /\ events = <<>>
    /\ clock = 0
    /\ filesFound = NotCalled

\* configure (lines 162-181) with a config that names a selector; without one
\* line 169 raises a TypeError
Configure ==
    \E config \in Configs :
        LET has(k) == k \in DOMAIN config IN
        /\ object = "CssRecord"
        /\ mangledSelector' = getMangledSelector(config.selector)
        /\ screenId' = IF has("screenId") THEN Number(config.screenId) ELSE UndefinedNumber
        /\ selector' = ConfiguredSelector(config.selector)
        /\ scope' = IF has("scope") /\ config.scope # "" THEN config.scope ELSE Null
        /\ shouldBeGenerated' =
              IF has("shouldBeGenerated") THEN config.shouldBeGenerated ELSE shouldBeGenerated
        /\ components' = addComponents(components, IF has("components") THEN config.components ELSE <<>>)
        /\ properties' = addProperties(properties, hooks,
                                       IF has("properties") THEN config.properties ELSE <<>>)
        /\ pseudoClasses' = addPseudoClasses(pseudoClasses,
                                IF has("pseudoClasses") THEN config.pseudoClasses ELSE <<>>)
        /\ changed' = TRUE
        /\ Called("configure", config, Undefined)
        /\ recomputed' = FALSE
        /\ UNCHANGED <<object, hooks, bundlerVars, cache, customSelectors, legacyVars>>

AddProperties ==
    \E given \in PropertiesInputs :
        /\ object = "CssRecord"
        /\ properties' = addProperties(properties, hooks, given)
        /\ changed' = (changed \/ addPropertiesChanges(given))
        /\ Called("addProperties", given, Undefined)
        /\ recomputed' = FALSE
        /\ UNCHANGED <<object, hooks, bundlerVars, cache, shouldBeGenerated, selector,
                       mangledSelector, screenId, scope, customSelectors, components,
                       pseudoClasses, legacyVars>>

AddProperty ==
    \E given \in PropertyInputs :
        /\ object = "CssRecord"
        /\ properties' = addProperty(properties, hooks, given[1], given[2])
        /\ changed' = (changed \/ addPropertyChanges(properties, given[1]))
        /\ Called("addProperty", given, Undefined)
        /\ recomputed' = FALSE
        /\ UNCHANGED <<object, hooks, bundlerVars, cache, shouldBeGenerated, selector,
                       mangledSelector, screenId, scope, customSelectors, components,
                       pseudoClasses, legacyVars>>

\* addPseudoClasses (lines 202-213): a string is wrapped into an array first
AddPseudoClasses ==
    \E given \in PseudoClassesInputs :
        LET list == IF given[1] = "array" THEN given[2] ELSE <<given[2]>> IN
        /\ object = "CssRecord"
        /\ pseudoClasses' = addPseudoClasses(pseudoClasses, list)
        /\ changed' = (changed \/ addPseudoClassesChanges(pseudoClasses, list))
        /\ Called("addPseudoClasses", given, Undefined)
        /\ recomputed' = FALSE
        /\ UNCHANGED <<object, hooks, bundlerVars, cache, shouldBeGenerated, selector,
                       mangledSelector, screenId, scope, customSelectors, components,
                       properties, legacyVars>>

AddCustomSelector ==
    \E given \in CustomSelectorNames :
        /\ object = "CssRecord"
        /\ customSelectors' = addCustomSelector(customSelectors, given)
        /\ Called("addCustomSelector", given, Undefined)
        /\ recomputed' = FALSE
        /\ UNCHANGED <<object, hooks, bundlerVars, changed, cache, shouldBeGenerated,
                       selector, mangledSelector, screenId, scope, components, properties,
                       pseudoClasses, legacyVars>>

AddComponents ==
    \E given \in ComponentsInputs :
        /\ object = "CssRecord"
        /\ components' = addComponents(components, given)
        /\ changed' = (changed \/ addComponentsChanges(components, given))
        /\ Called("addComponents", given, Undefined)
        /\ recomputed' = FALSE
        /\ UNCHANGED <<object, hooks, bundlerVars, cache, shouldBeGenerated, selector,
                       mangledSelector, screenId, scope, customSelectors, properties,
                       pseudoClasses, legacyVars>>

AddComponent ==
    \E given \in ComponentInputs :
        /\ object = "CssRecord"
        /\ components' = addComponent(components, given[1], given[2])
        /\ changed' = (changed \/ addComponentChanges(components, given[1]))
        /\ Called("addComponent", given, Undefined)
        /\ recomputed' = FALSE
        /\ UNCHANGED <<object, hooks, bundlerVars, cache, shouldBeGenerated, selector,
                       mangledSelector, screenId, scope, customSelectors, properties,
                       pseudoClasses, legacyVars>>

\* generateCss (lines 240-312); the 'cssRecord:cssGenerated' listeners observe
GenerateCss ==
    \E config \in CompileConfigs :
        /\ object = "CssRecord"
        /\ recomputed' = MustGenerate(changed, cache)
        /\ IF recomputed'
           THEN /\ components' = PoppedComponents(components)
                /\ cache' = CssText(this, config)
                /\ changed' = FALSE
           ELSE UNCHANGED <<components, cache, changed>>
        /\ Called("generateCss", config, cache')
        /\ UNCHANGED <<object, hooks, bundlerVars, shouldBeGenerated, selector,
                       mangledSelector, screenId, scope, customSelectors, properties,
                       pseudoClasses, legacyVars>>

(***************************************************************************)
(* Calls on the default-export records: R is built and serialized, the     *)
(* snapshot is deserialized into D and hydrated into T.                    *)
(***************************************************************************)
LegacyAddSelector ==
    \E given \in LegacySelectors :
        /\ object = "default"
        /\ R' = addSelector(R, given[1], given[2])
        /\ Called("addSelector", given, Undefined)
        /\ thrown' = Null
        /\ UNCHANGED <<object, hooks, bundlerVars, recordVars, recomputed, T, data, D>>

LegacyAddProperty ==
    \E given \in LegacyProperties :
        /\ object = "default"
        /\ R' = legacyAddProperty(R, given[1], given[2])
        /\ Called("addProperty", given, Undefined)
        /\ thrown' = Null
        /\ UNCHANGED <<object, hooks, bundlerVars, recordVars, recomputed, T, data, D>>

Serialize ==
    /\ object = "default"
    /\ data' = serialize(R)
    /\ Called("serialize", <<>>, Undefined)
    /\ thrown' = Null
    /\ UNCHANGED <<object, hooks, bundlerVars, recordVars, recomputed, R, T, D>>

Deserialize ==
    /\ object = "default"
    /\ data # NoData
    /\ D' = deserialize(data)
    /\ Called("deserialize", <<>>, Undefined)
    /\ thrown' = Null
    /\ UNCHANGED <<object, hooks, bundlerVars, recordVars, recomputed, R, T, data>>

Hydrate ==
    /\ object = "default"
    /\ data # NoData
    /\ T' = hydrate(T, data).rec
    /\ thrown' = hydrate(T, data).thrown
    /\ Called("hydrate", <<>>, Undefined)
    /\ UNCHANGED <<object, hooks, bundlerVars, recordVars, recomputed, R, data, D>>

Compile ==
    \E minimize \in BOOLEAN :
        /\ object = "default"
        /\ Called("compile", [minimize |-> minimize], compile(R, [minimize |-> minimize]))
        /\ thrown' = Null
        /\ UNCHANGED <<object, hooks, bundlerVars, recordVars, recomputed, R, T, data, D>>

(***************************************************************************)
(* Calls on the Bundler: bundle(bundles), and the change of a watched file *)
(***************************************************************************)
\* the Bundler at hand as one value
bundler ==
    [watchFiles |-> watchFiles, cache |-> bundlesBuildCache, watchers |-> watchers,
     files |-> fileSystem, written |-> written, compilers |-> compilers,
     events |-> events, clock |-> clock]

BundlerBecomes(after) ==
    /\ bundlesBuildCache' = after.cache
    /\ watchers' = after.watchers
    /\ fileSystem' = after.files
    /\ written' = after.written
    /\ compilers' = after.compilers
    /\ events' = after.events
    /\ clock' = after.clock
    /\ UNCHANGED <<object, hooks, watchFiles, filesFound, recordVars, recomputed, legacyVars>>

\* bundle(bundles) (lines 83-138)
Bundle ==
    \E bundles \in BundlesInputs :
        /\ object = "Bundler"
        /\ clock + Len(bundles) <= MaxCalls
        /\ BundlerBecomes(bundle([bundler EXCEPT !.events = <<>>], bundles))
        /\ Called("bundle", bundles, Undefined)

\* a watched file changes: fs.watchFile calls the listeners registered for it
\* (lines 190-197)
FileChanged ==
    \E i \in 1..Len(watchers) :
        LET filePath == watchers[i][1]
            listeners == SelectSeq(watchers, LAMBDA listener : listener[1] = filePath)
        IN  /\ object = "Bundler"
            /\ \A j \in 1..(i - 1) : watchers[j][1] # filePath
            /\ clock + Len(listeners) <= MaxCalls
            /\ BundlerBecomes(WatchListeners([bundler EXCEPT !.events = <<>>], listeners))
            /\ Called("fileChanged", filePath, Undefined)

\* getFilesToProcess(compiler, filesMasks) (lines 253-283) on given files
GetFilesToProcess ==
    \E files \in FileSets, filesMasks \in MasksInputs :
        /\ object = "Bundler"
        /\ filesFound' = getFilesToProcessCall(files, filesMasks, MaxDepth)
        /\ Called("getFilesToProcess", <<files, filesMasks>>, Undefined)
        /\ UNCHANGED <<object, hooks, watchFiles, bundlesBuildCache, watchers, fileSystem,
                       written, compilers, events, clock, recordVars, recomputed,
                       legacyVars>>

Next ==
    \/ Configure
    \/ AddProperties
    \/ AddProperty
    \/ AddPseudoClasses
    \/ AddCustomSelector
    \/ AddComponents
    \/ AddComponent
    \/ GenerateCss
    \/ LegacyAddSelector
    \/ LegacyAddProperty
    \/ Serialize
    \/ Deserialize
    \/ Hydrate
    \/ Compile
    \/ Bundle
    \/ FileChanged
    \/ GetFilesToProcess

Spec == Init /\ [][Next]_vars

(***************************************************************************)
(* Reading a rendered text back                                            *)
(***************************************************************************)
EndsWith(s, suffix) ==
    Len(s) >= Len(suffix) /\ SubSeq(s, Len(s) - Len(suffix) + 1, Len(s)) = suffix
StripNewLine(s) == IF s # "" /\ CharAt(s, 1) = "\n" THEN Tail(s) ELSE s
\* the selector list of a rule: what stands before "{", cut at the commas
RenderedSelectors(text) ==
    LET list == Split(Split(text, "{")[1], ",")
    IN  [i \in 1..Len(list) |-> StripNewLine(list[i])]
\* the declaration lines of a rule rendered without minimize
RenderedDeclarations(text) ==
    SelectSeq(Split(text, "\n"), LAMBDA line : line # "" /\ CharAt(line, 1) = "\t")

PlainConfig == [minimize |-> FALSE, mangleSelectors |-> FALSE]

(***************************************************************************)
(* C1: first write wins. An addProperty(p, v2) on a CssRecord whose        *)
(* properties hold p already, or an addProperties whose every key is held  *)
(* already, leaves properties as they are; so does addProperty of the      *)
(* default-export CssRecord.                                               *)
(***************************************************************************)
C1_FirstWriteWins ==
    [][ /\ (object = "CssRecord" /\ op' = "addProperty" /\ HasKey(properties, args'[1]))
            => properties' = properties
        /\ (object = "CssRecord" /\ op' = "addProperties"
              /\ \A i \in 1..Len(args') : HasKey(properties, args'[i][1]))
            => properties' = properties
        /\ (object = "default" /\ op' = "addProperty" /\ HasKey(R.properties, args'[1]))
            => R'.properties = R.properties ]_vars

\* addProperty('margin', '20px') was called on a record holding margin = '10px'
C1_Witness ==
    /\ object = "CssRecord"
    /\ op = "addProperty"
    /\ args = <<"margin", "20px">>
    /\ HasKey(properties, "margin")
    /\ Get(properties, "margin") = "10px"

(***************************************************************************)
(* C2: once a property name is stored its value never changes, whatever    *)
(* addProperty / addProperties call follows and whatever listeners are     *)
(* registered, a call for another name whose hook result holds the stored  *)
(* name included.                                                          *)
(***************************************************************************)
C2_StoredValueImmutable ==
    [][ (object = "CssRecord" /\ op' \in {"addProperty", "addProperties"})
            => \A i \in 1..Len(properties) :
                  /\ HasKey(properties', properties[i][1])
                  /\ Get(properties', properties[i][1]) = properties[i][2] ]_vars

(***************************************************************************)
(* C3: the second of two consecutive generateCss calls returns the text of *)
(* the first and does not compute: it takes the cached branch and returns  *)
(* the stored cache.                                                       *)
(***************************************************************************)
C3_SecondCallCached ==
    [][ (op = "generateCss" /\ op' = "generateCss")
            => (~recomputed' /\ ret' = ret /\ cache' = cache /\ ret' = cache') ]_vars

\* a generateCss call took the cached branch
C3_Witness == op = "generateCss" /\ ~recomputed /\ ~changed /\ ret = cache

(***************************************************************************)
(* C4: mangling is decided at render time. A generateCss call that follows *)
(* a generateCss call with no mutation between them returns the text of    *)
(* the record's state under its own config (mangledSelector with           *)
(* mangleSelectors, the escaped selector without), whatever the config of  *)
(* the earlier call was.                                                   *)
(***************************************************************************)
C4_MangleAtRenderTime ==
    [][ (op = "generateCss" /\ recomputed /\ op' = "generateCss"
           /\ args'.minimize = args.minimize)
            => ret' = CssText(this, args') ]_vars

C6_State ==
    /\ object = "CssRecord"
    /\ hooks = <<>>
    /\ selector = "m\\:10px"
    /\ properties = <<<<"margin", "10px">>>>
    /\ pseudoClasses = <<>>
    /\ components = <<>>
    /\ customSelectors = <<>>
    /\ scope = Null

AllPseudoClassNames == {"hover", "focus", "active"}

C7_PseudoSuffixOnly ==
    (object = "CssRecord" /\ op = "generateCss")
        => LET rendered == RenderedSelectors(ret)
           IN  IF pseudoClasses # <<>>
               THEN \A i \in 1..Len(rendered) :
                        \E j \in 1..Len(pseudoClasses) :
                            EndsWith(rendered[i], ":" \o pseudoClasses[j])
               ELSE \A i \in 1..Len(rendered) :
                        \A p \in AllPseudoClassNames : ~EndsWith(rendered[i], ":" \o p)

\* a record with pseudo-classes, a custom selector and a component was rendered
C7_Witness ==
    /\ object = "CssRecord"
    /\ op = "generateCss"
    /\ recomputed
    /\ pseudoClasses # <<>>
    /\ customSelectors # <<>>
    /\ components # <<>>

(***************************************************************************)
(* C8: every pseudo-class is applied to every selector variant: the text   *)
(* generateCss computes lists, for every pseudo-class p of the record, each*)
(* custom selector, the class selector and each component selector with    *)
(* the suffix ':' + p.                                                     *)
(***************************************************************************)
C8_EveryPseudoClassOnEveryVariant ==
    (object = "CssRecord" /\ op = "generateCss" /\ recomputed)
        => LET rendered == RenderedSelectors(ret)
               scopePart == IF scope = Null THEN "" ELSE scope
               componentsSelectors == ComponentsSelectors(components)
           IN  \A j \in 1..Len(pseudoClasses) :
                  /\ \A i \in 1..Len(customSelectors) :
                        Includes(rendered,
                                 scopePart \o customSelectors[i] \o ":" \o pseudoClasses[j])
                  /\ Includes(rendered, scopePart \o "." \o Str(CssRecordSelector(this, args))
                                        \o ":" \o pseudoClasses[j])
                  /\ \A i \in 1..Len(componentsSelectors) :
                        Includes(rendered, scopePart \o "." \o componentsSelectors[i]
                                           \o ":" \o pseudoClasses[j])

(***************************************************************************)
(* C9: round trip of the default-export CssRecord. The record deserialized *)
(* from R's snapshot compiles to the text R compiles to, with and without  *)
(* minimize.                                                               *)
(***************************************************************************)
C9_RoundTripCompile ==
    (object = "default" /\ op = "deserialize" /\ data = serialize(R))
        => \A minimize \in BOOLEAN :
              compile(D, [minimize |-> minimize]) = compile(R, [minimize |-> minimize])

(***************************************************************************)
(* C10: hydrating T from R's snapshot raises nothing, and afterwards T     *)
(* holds every selector, property name and pseudo-class of R.              *)
(***************************************************************************)
C10_HydrateCompletes ==
    (object = "default" /\ op = "hydrate" /\ data = serialize(R))
        => /\ thrown = Null
           /\ \A i \in 1..Len(R.selectors) : Includes(T.selectors, R.selectors[i])
           /\ \A i \in 1..Len(R.properties) : HasKey(T.properties, R.properties[i][1])
           /\ \A i \in 1..Len(R.pseudoClasses) : Includes(T.pseudoClasses, R.pseudoClasses[i])

(***************************************************************************)
(* C11: in the text generateCss computes, every chain of every component   *)
(* alias gives one selector: the classes of a non-empty chain and the alias*)
(* joined by dots ('.c1.c2.alias'), the alias alone ('.alias') for an empty*)
(* or blank chain, also in a list of several chains; no selector holds an  *)
(* empty class name (two dots in a row).                                   *)
(***************************************************************************)
Contains(s, sub) ==
    \E i \in 1..(Len(s) - Len(sub) + 1) : SubSeq(s, i, i + Len(sub) - 1) = sub
\* the class names of a chain: its parts between white space
ChainClasses(chain) ==
    SelectSeq(Split(CollapseWhiteSpace(chain), " "), LAMBDA part : part # "")
CompoundSelector(chain, alias) ==
    IF ChainClasses(chain) = <<>> THEN alias
    ELSE Join(ChainClasses(chain), ".") \o "." \o alias
PseudoSuffixes ==
    IF pseudoClasses = <<>> THEN {""}
    ELSE { ":" \o pseudoClasses[j] : j \in 1..Len(pseudoClasses) }

C11_CompoundSelectors ==
    (object = "CssRecord" /\ op = "generateCss" /\ recomputed)
        => LET rendered == RenderedSelectors(ret)
               scopePart == IF scope = Null THEN "" ELSE scope
           IN  /\ \A i \in 1..Len(rendered) : ~Contains(rendered[i], "..")
               /\ \A c \in 1..Len(components) :
                    LET alias == components[c][1]
                        chains == IF components[c][2] = <<>> THEN <<"">>
                                  ELSE components[c][2]
                    IN  \A k \in 1..Len(chains) : \A suffix \in PseudoSuffixes :
                            Includes(rendered, scopePart \o "."
                                     \o CompoundSelector(chains[k], alias) \o suffix)

(***************************************************************************)
(* C12: after configure(config) with a selector (the constructor included) *)
(* the stored selector, read as a CSS identifier, is the class name        *)
(* config.selector: every character other than letters, digits, '-' and    *)
(* '_' is escaped with a backslash and a leading digit as a hex escape, for*)
(* every input, a digit followed by a hex digit ('1a') included.           *)
(***************************************************************************)
HexDigits == CharsOf("0123456789abcdefABCDEF")
\* the hex digits an escape takes: as many as follow the backslash, six at most
HexRun(s) ==
    LET stops == { n \in 0..6 : n <= Len(s) /\ \A i \in 1..n : CharAt(s, i) \in HexDigits }
    IN  CHOOSE n \in stops : \A m \in stops : m <= n
\* the character a hex escape names: '3d' is the digit d; any other code
\* point is written U+ and its digits
CodePoint(hex) ==
    IF Len(hex) = 2 /\ CharAt(hex, 1) = "3" /\ CharAt(hex, 2) \in Digits
    THEN CharAt(hex, 2) ELSE "U+" \o hex

RECURSIVE CssIdentValue(_)
\* the name a CSS identifier denotes: '\' and hex digits (and one white space
\* ending them) is a code point, '\' and any other character is that character
CssIdentValue(s) ==
    IF s = "" THEN ""
    ELSE IF CharAt(s, 1) # "\\" THEN CharAt(s, 1) \o CssIdentValue(Tail(s))
    ELSE LET rest == Tail(s)
             n == HexRun(rest)
             after == SubSeq(rest, n + 1, Len(rest))
         IN  IF rest = "" THEN ""
             ELSE IF n = 0 THEN CharAt(rest, 1) \o CssIdentValue(Tail(rest))
             ELSE CodePoint(SubSeq(rest, 1, n))
                  \o CssIdentValue(IF after # "" /\ CharAt(after, 1) \in WhiteSpace
                                   THEN Tail(after) ELSE after)

C12_SelectorDenotesClassName ==
    (object = "CssRecord" /\ op \in {"constructor", "configure"})
        => CssIdentValue(selector) = args.selector

(***************************************************************************)
(* C13: when the record's scope is set, every selector of the text         *)
(* generateCss returns (custom selectors, class selector and component     *)
(* selectors, with or without pseudo-class suffix) starts with the scope   *)
(* string; when scope is null, no selector carries a prefix.               *)
(***************************************************************************)
StartsWith(s, prefix) == Len(s) >= Len(prefix) /\ SubSeq(s, 1, Len(prefix)) = prefix
\* a selector variant as it stands without prefix: a class selector or a
\* custom selector
IsBareVariant(s) ==
    \/ StartsWith(s, ".")
    \/ \E custom \in CustomSelectorNames : StartsWith(s, custom)

C13_ScopePrefixesEveryVariant ==
    (object = "CssRecord" /\ op = "generateCss")
        => LET rendered == RenderedSelectors(ret)
           IN  \A i \in 1..Len(rendered) :
                  IF scope # Null
                  THEN /\ StartsWith(rendered[i], scope)
                       /\ IsBareVariant(SubSeq(rendered[i], Len(scope) + 1, Len(rendered[i])))
                  ELSE IsBareVariant(rendered[i])

\* a scoped record with a custom selector and a component was rendered
C13_Witness ==
    /\ object = "CssRecord"
    /\ op = "generateCss"
    /\ recomputed
    /\ scope # Null
    /\ customSelectors # <<>>
    /\ components # <<>>

(***************************************************************************)
(* C14: a generateCss call writes cache and changed only: selector,        *)
(* mangledSelector, screenId, scope, customSelectors, properties,          *)
(* pseudoClasses and components, the chain list of every component         *)
(* included, are after the call what they were before it.                  *)
(***************************************************************************)
C14_GenerateCssFrame ==
    [][(object = "CssRecord" /\ op' = "generateCss")
          => /\ selector' = selector
             /\ mangledSelector' = mangledSelector
             /\ screenId' = screenId
             /\ scope' = scope
             /\ customSelectors' = customSelectors
             /\ properties' = properties
             /\ pseudoClasses' = pseudoClasses
             /\ components' = components]_vars

(***************************************************************************)
(* C15: components are kept by escaped alias and the first chain list wins:*)
(* addComponent(a, chain) on a record whose components hold the escaped    *)
(* form of a changes neither components nor changed, and after any         *)
(* addComponent or addComponents call no escaped alias is held twice.      *)
(***************************************************************************)
C15_ComponentFirstWriteWins ==
    [][(object = "CssRecord" /\ op' \in {"addComponent", "addComponents"})
          => /\ \A i \in 1..Len(components) :
                    /\ HasKey(components', components[i][1])
                    /\ Get(components', components[i][1]) = components[i][2]
             /\ (op' = "addComponent" /\ HasKey(components, EscapeSelector(args'[1])))
                    => (components' = components /\ changed' = changed)
             /\ \A i, j \in 1..Len(components') :
                    components'[i][1] = components'[j][1] => i = j]_vars

\* addComponent was called with an alias the record held, under its escaped
\* form, with another chain list
C15_Witness ==
    /\ object = "CssRecord"
    /\ op = "addComponent"
    /\ ~changed
    /\ HasKey(components, EscapeSelector(args[1]))
    /\ EscapeSelector(args[1]) # args[1]
    /\ Get(components, EscapeSelector(args[1])) # args[2]

(***************************************************************************)
(* C19: a CssRecord never returns stale CSS. With one config used for the  *)
(* generateCss calls, each call returns the text a fresh render of the     *)
(* record as it is now gives, whatever public mutators ran in between: a   *)
(* custom selector added after a generateCss call is in the next result.   *)
(* cacheConfig = args says the cache at hand was computed with the config  *)
(* of this call.                                                           *)
(***************************************************************************)
C19_NeverStale ==
    (object = "CssRecord" /\ op = "generateCss" /\ cacheConfig = args)
        => ret = CssText(this, args)

(***************************************************************************)
(* Reading the events of a Bundler call                                    *)
(***************************************************************************)
OutputFiles == {"out/a.css", "out/b.css"}
\* the bundle options the calls draw from
AllBundles == UNION { { bundles[i] : i \in 1..Len(bundles) } : bundles \in BundlesInputs }
\* the compiler.compile calls of a log for one output file, in order
CompilesOf(log, outputFile) ==
    SelectSeq(log, LAMBDA e : e.outputFile = outputFile
                              /\ e.kind \in {"pregenerate", "compile"})
\* the result the build cache holds for an output file, none without an entry
ResultOf(buildCache, outputFile) ==
    IF HasKey(buildCache, outputFile) THEN Get(buildCache, outputFile).compilationResult
    ELSE NoResult
CountOf(log, kind, outputFile) ==
    Cardinality({ i \in 1..Len(log) : log[i].kind = kind /\ log[i].outputFile = outputFile })

(***************************************************************************)
(* C16: the Bundler compiles incrementally per output file. Over all       *)
(* processBundle calls naming one outputFile (from bundle() and from       *)
(* watcher listeners) one Compiler is constructed, every compiler.compile  *)
(* call is given the result the previous compile call for that outputFile  *)
(* returned (none only for the very first), the build cache keeps the last *)
(* result returned, and the output file is rendered from it.               *)
(***************************************************************************)
C16_IncrementalPerOutputFile ==
    [][(object = "Bundler" /\ op' \in {"bundle", "fileChanged"})
          => \A outputFile \in OutputFiles :
               LET calls == CompilesOf(events', outputFile)
                   last == IF calls = <<>> THEN ResultOf(bundlesBuildCache, outputFile)
                           ELSE calls[Len(calls)].returned
               IN  /\ \A k \in 1..Len(calls) :
                        calls[k].existing =
                            IF k = 1 THEN ResultOf(bundlesBuildCache, outputFile)
                            ELSE calls[k - 1].returned
                   /\ ResultOf(bundlesBuildCache', outputFile) = last
                   /\ CountOf(events', "writeOutput", outputFile) > 0
                        => /\ last # NoResult
                           /\ Get(written', outputFile) = CompilationResult_generateCss(last)
                   /\ Cardinality({ i \in 1..Len(compilers') : compilers'[i] = outputFile })
                        = IF HasKey(bundlesBuildCache', outputFile) THEN 1 ELSE 0
                   /\ HasKey(bundlesBuildCache, outputFile)
                        => /\ CountOf(events', "newCompiler", outputFile) = 0
                           /\ Get(bundlesBuildCache', outputFile).compiler.id
                                = Get(bundlesBuildCache, outputFile).compiler.id]_vars

\* a watcher listener ran processBundle for an output file compiled before:
\* its compile call was given the result of the earlier call
C16_Witness ==
    /\ object = "Bundler"
    /\ op = "fileChanged"
    /\ \E i \in 1..Len(events) :
          /\ events[i].kind = "compile"
          /\ events[i].existing # NoResult
          /\ events[i].returned # events[i].existing

(***************************************************************************)
(* C17: the order of the steps of processBundle. For every processed file: *)
(* its components are configured on the compiler (when it declares any),   *)
(* then its pregenerate text is compiled (when it has one), then its       *)
(* content is compiled into the result the pregenerate compile returned,   *)
(* then, only with mangleSelectors, the file is rewritten. The output file *)
(* is written once per call, after the last file was compiled.             *)
(***************************************************************************)
\* the steps of the calls without the registrations
Steps == SelectSeq(events, LAMBDA e : e.kind \notin {"watchFile", "newCompiler"})
OptionsOf(filePath) == Compiler_getOptionsFromContent(Get(fileSystem, filePath))
MangleSelectorsOf(outputFile) ==
    \E bundleOptions \in AllBundles :
        bundleOptions.outputFile = outputFile /\ bundleOptions.mangleSelectors
\* the index after the last step of the call that starts at index i
EndOfCall(log, i) ==
    LET later == { j \in (i + 1)..Len(log) : log[j].kind = "processBundle" }
    IN  IF later = {} THEN Len(log) + 1 ELSE CHOOSE j \in later : \A k \in later : j <= k

C17_StepsInOrder ==
    object = "Bundler"
        => LET log == Steps
               kindAt(i) == IF i \in 1..Len(log) THEN log[i].kind ELSE "none"
               fileAt(i) == IF i \in 1..Len(log) THEN log[i].filePath ELSE "none"
           IN  /\ \A i \in 1..Len(log) :
                    LET f == log[i].filePath
                        hasPregenerate ==
                            OptionsOf(f).pregenerate \notin {Undefined, ""}
                        hasComponents == OptionsOf(f).components # <<>>
                        before == IF hasPregenerate THEN i - 2 ELSE i - 1
                    IN  log[i].kind = "compile"
                          => /\ IF hasPregenerate
                                THEN /\ kindAt(i - 1) = "pregenerate"
                                     /\ fileAt(i - 1) = f
                                     /\ log[i].existing = log[i - 1].returned
                                ELSE kindAt(i - 1) # "pregenerate"
                             /\ IF hasComponents
                                THEN kindAt(before) = "configure" /\ fileAt(before) = f
                                ELSE kindAt(before) # "configure"
                             /\ IF MangleSelectorsOf(log[i].outputFile)
                                THEN kindAt(i + 1) = "rewrite" /\ fileAt(i + 1) = f
                                ELSE kindAt(i + 1) # "rewrite"
               /\ \A i \in 1..Len(log) :
                    /\ log[i].kind = "configure"
                         => kindAt(i + 1) \in {"pregenerate", "compile"}
                            /\ fileAt(i + 1) = log[i].filePath
                    /\ log[i].kind = "pregenerate"
                         => kindAt(i + 1) = "compile" /\ fileAt(i + 1) = log[i].filePath
                    /\ log[i].kind = "rewrite"
                         => kindAt(i - 1) = "compile" /\ fileAt(i - 1) = log[i].filePath
               /\ \A i \in 1..Len(log) :
                    log[i].kind = "processBundle"
                      => LET end == EndOfCall(log, i)
                             writes == { j \in (i + 1)..(end - 1) : log[j].kind = "writeOutput" }
                             work == { j \in (i + 1)..(end - 1) :
                                         log[j].kind \in {"configure", "pregenerate",
                                                          "compile", "rewrite"} }
                         IN  \/ /\ end = i + 2
                                /\ kindAt(i + 1) = "skip"
                             \/ /\ Cardinality(writes) = 1
                                /\ \E j \in work : log[j].kind = "compile"
                                /\ \A j \in work : \A w \in writes : j < w

\* one call configured components, compiled a pregenerate text and a content,
\* and rewrote a file
C17_Witness ==
    /\ object = "Bundler"
    /\ \A kind \in {"configure", "pregenerate", "compile", "rewrite", "writeOutput"} :
          \E i \in 1..Len(events) : events[i].kind = kind

(***************************************************************************)
(* C18: a processBundle call whose file masks match no file writes neither *)
(* the output file nor the cache dump and leaves compilationResult,        *)
(* buildTime and files of the bundle's build-cache entry as they were (as  *)
(* the entry is created, when the call is the first for the outputFile).   *)
(***************************************************************************)
MatchesNoFile(bundleOptions) == FgSync(fileSystem, bundleOptions.files) = <<>>
SameFile(before, after, filePath) ==
    /\ HasKey(after, filePath) <=> HasKey(before, filePath)
    /\ HasKey(before, filePath) => Get(after, filePath) = Get(before, filePath)

C18_NoMatchNoWrite ==
    [][(object = "Bundler" /\ op' = "bundle")
          => \A outputFile \in OutputFiles :
               LET named == { i \in 1..Len(args') : args'[i].outputFile = outputFile }
                   before == IF HasKey(bundlesBuildCache, outputFile)
                             THEN Get(bundlesBuildCache, outputFile)
                             ELSE [compilationResult |-> NoResult,
                                   buildTime |-> NullNumber, files |-> <<>>]
               IN  (named # {} /\ \A i \in named : MatchesNoFile(args'[i]))
                     => /\ CountOf(events', "skip", outputFile) = Cardinality(named)
                        /\ CountOf(events', "writeOutput", outputFile) = 0
                        /\ CountOf(events', "dumpCache", outputFile) = 0
                        /\ SameFile(written, written', outputFile)
                        /\ SameFile(written, written', outputFile \o ".json")
                        /\ HasKey(bundlesBuildCache', outputFile)
                        /\ LET after == Get(bundlesBuildCache', outputFile)
                           IN  /\ after.compilationResult = before.compilationResult
                               /\ after.buildTime = before.buildTime
                               /\ after.files = before.files]_vars

\* a bundle matching no file was asked for an output file built before
C18_Witness ==
    /\ object = "Bundler"
    /\ op = "bundle"
    /\ \A i \in 1..Len(args) : MatchesNoFile(args[i])
    /\ \E i \in 1..Len(events) : events[i].kind = "skip"
    /\ \E i \in 1..Len(args) :
          /\ HasKey(written, args[i].outputFile)
          /\ Get(bundlesBuildCache, args[i].outputFile).buildTime # NullNumber

(***************************************************************************)
(* C20: in watch mode every file is watched once per bundle. For each      *)
(* outputFile and each file path at most one listener is registered and    *)
(* the path is at most once in the files of the build-cache entry, after   *)
(* any calls, those from listeners included; the change of a watched file  *)
(* runs processBundle once for a bundle.                                   *)
(***************************************************************************)
C20_WatchedOnce ==
    (object = "Bundler" /\ watchFiles)
        => /\ \A i, j \in 1..Len(watchers) :
                (/\ watchers[i][1] = watchers[j][1]
                 /\ watchers[i][2].outputFile = watchers[j][2].outputFile) => i = j
           /\ \A outputFile \in OutputFiles :
                HasKey(bundlesBuildCache, outputFile)
                  => LET paths == Get(bundlesBuildCache, outputFile).files
                     IN  \A i, j \in 1..Len(paths) : paths[i] = paths[j] => i = j
           /\ op = "fileChanged"
                => \A outputFile \in OutputFiles :
                      CountOf(events, "processBundle", outputFile) <= 1

(***************************************************************************)
(* C21: getFilesToProcess terminates for every finite set of files and     *)
(* returns each file it reaches at most once, also when files name each    *)
(* other, or themselves, through the 'files' content option (A lists B and *)
(* B lists A).                                                             *)
(***************************************************************************)
C21_TerminatesWithoutDuplicates ==
    (object = "Bundler" /\ op = "getFilesToProcess")
        => /\ filesFound.thrown = Null
           /\ \A i, j \in 1..Len(filesFound.returned) :
                 filesFound.returned[i].filePath = filesFound.returned[j].filePath
                    => i = j

====
